---- MODULE Spec2Model ----
(***************************************************************************)
(* Model of the MIDI rendering core of src/app.py: pitch_to_midi,          *)
(* _encode_varint, _meta_tempo, build_midi and the validation step at the  *)
(* end of call_foundry_for_music_json.                                     *)
(*                                                                         *)
(* Python strings are sequences of one-character strings, bytes objects    *)
(* are sequences of integers 0..255, dicts are functions whose DOMAIN is   *)
(* the set of keys present, lists are sequences.  Beat values are held as  *)
(* integers in units of 1/BeatDen beat; BeatDen is a power of two, so the  *)
(* float product beat * 480 of the code is exact on this grid.             *)
(***************************************************************************)
EXTENDS Integers, Sequences, FiniteSets, TLC

VARIABLES pc, arg, result, err, events, idx, current_tick, value, buf, track, deltas

vars == <<pc, arg, result, err, events, idx, current_tick, value, buf, track, deltas>>

\* ------------------------------------------------------------------ bounds
MaxOctave == 9
MaxNotes == 3
GridBits == 10
MaxBpm == 250
MaxSmallVarint == 300
MaxVarintBytes == 6

BeatDen == 2 ^ GridBits

\* ------------------------------------------------------- program constants
PITCH_MIN == 48
PITCH_MAX == 72
tpb == 480

REQUIRED_FIELDS == {"title", "tempo_bpm", "key", "length_bars", "time_signature", "melody"}

\* --------------------------------------------------------- generic helpers
RECURSIVE Reverse(_)
Reverse(s) == IF s = <<>> THEN <<>> ELSE Append(Reverse(Tail(s)), Head(s))

Max2(a, b) == IF a >= b THEN a ELSE b
Min2(a, b) == IF a <= b THEN a ELSE b

\* int(x) of a float x = n / d with d > 0: truncation toward zero.
TruncDiv(n, d) == IF n >= 0 THEN n \div d ELSE -((-n) \div d)

\* ------------------------------------------------------------ pitch_to_midi
Digits == {"0", "1", "2", "3", "4", "5", "6", "7", "8", "9"}
DigitVal == ("0" :> 0) @@ ("1" :> 1) @@ ("2" :> 2) @@ ("3" :> 3) @@ ("4" :> 4) @@ ("5" :> 5) @@ ("6" :> 6) @@ ("7" :> 7) @@ ("8" :> 8) @@ ("9" :> 9)
DigitChr == <<"0", "1", "2", "3", "4", "5", "6", "7", "8", "9">>

_NOTE_MAP == ("C" :> 0) @@ ("D" :> 2) @@ ("E" :> 4) @@ ("F" :> 5) @@ ("G" :> 7) @@ ("A" :> 9) @@ ("B" :> 11)
_ACCID_MAP == ("#" :> 1) @@ ("b" :> -1)

\* str.strip(): leading and trailing blanks removed.
RECURSIVE LStrip(_)
LStrip(s) == IF s # <<>> /\ Head(s) = " " THEN LStrip(Tail(s)) ELSE s
Strip(s) == Reverse(LStrip(Reverse(LStrip(s))))

\* int() of a run of decimal digits, most significant first.
RECURSIVE DigitsToInt(_)
DigitsToInt(ds) == IF ds = <<>> THEN 0 ELSE DigitsToInt(SubSeq(ds, 1, Len(ds) - 1)) * 10 + DigitVal[ds[Len(ds)]]

\* re.fullmatch(r"([A-G])([#b]?)(-?\d+)", s): [ok, note, acc, octave].
NoMatch == [ok |-> FALSE, note |-> "", acc |-> "", octave |-> 0]
MatchPitch(s) ==
    IF s = <<>> \/ Head(s) \notin DOMAIN _NOTE_MAP THEN NoMatch
    ELSE LET r1 == Tail(s)
             hasAcc == r1 # <<>> /\ Head(r1) \in {"#", "b"}
             acc == IF hasAcc THEN Head(r1) ELSE ""
             r2 == IF hasAcc THEN Tail(r1) ELSE r1
             neg == r2 # <<>> /\ Head(r2) = "-"
             ds == IF neg THEN Tail(r2) ELSE r2
         IN IF ds = <<>> \/ \E i \in 1..Len(ds) : ds[i] \notin Digits THEN NoMatch
            ELSE [ok |-> TRUE, note |-> Head(s), acc |-> acc,
                  octave |-> IF neg THEN -DigitsToInt(ds) ELSE DigitsToInt(ds)]

\* Faulty variant: "if" in place of "while", one octave at most.
FoldUp_once(midi) == IF midi < PITCH_MIN THEN midi + 12 ELSE midi

\* while midi < PITCH_MIN: midi += 12
RECURSIVE FoldUp(_)
FoldUp(midi) == IF midi < PITCH_MIN THEN FoldUp(midi + 12) ELSE midi

\* Faulty variant: ">=" in place of ">", the top of the range folds too.
RECURSIVE FoldDown_strict(_)
FoldDown_strict(midi) == IF midi >= PITCH_MAX THEN FoldDown_strict(midi - 12) ELSE midi

\* while midi > PITCH_MAX: midi -= 12
RECURSIVE FoldDown(_)
FoldDown(midi) == IF midi > PITCH_MAX THEN FoldDown(midi - 12) ELSE midi

RawMidi(m) == (m.octave + 1) * 12 + _NOTE_MAP[m.note] + (IF m.acc \in DOMAIN _ACCID_MAP THEN _ACCID_MAP[m.acc] ELSE 0)

\* [ok |-> TRUE, midi] on return, [ok |-> FALSE] when ValueError is raised.
pitch_to_midi(pitch_str) ==
    LET m == MatchPitch(Strip(pitch_str))
    IN IF ~m.ok THEN [ok |-> FALSE, midi |-> 0]
       ELSE [ok |-> TRUE, midi |-> FoldDown(FoldUp(RawMidi(m)))]

\* ----------------------------------------------------------- _encode_varint
\* buf = [value & 0x7F]; value >>= 7
VarintInit(v) == [buf |-> <<v % 128>>, value |-> v \div 128]

\* buf.append((value & 0x7F) | 0x80); value >>= 7
VarintIter(st) == [buf |-> Append(st.buf, (st.value % 128) + 128), value |-> st.value \div 128]

\* Faulty variant: the list is not reversed.
VarintBytes_unreversed(b) == b

\* bytes(reversed(buf))
VarintBytes(b) == Reverse(b)

\* while value: ...   (as a function; total for value >= 0)
RECURSIVE VarintRun(_)
VarintRun(st) == IF st.value # 0 THEN VarintRun(VarintIter(st)) ELSE st

_encode_varint(v) == VarintBytes(VarintRun(VarintInit(v)).buf)

\* -------------------------------------------------------------- _meta_tempo
\* struct.pack(">I", n): four bytes, most significant first.
PackBE32(n) == <<(n \div 16777216) % 256, (n \div 65536) % 256, (n \div 256) % 256, n % 256>>

\* struct.pack(">H", n)
PackBE16(n) == <<(n \div 256) % 256, n % 256>>

\* us = int(60_000_000 / bpm)
TempoMicros(bpm) == TruncDiv(60000000, bpm)

_meta_tempo(bpm) == <<255, 81, 3>> \o Tail(PackBE32(TempoMicros(bpm)))

\* -------------------------------------------- validation (lines 144 to 151)
\* The spelling of each required key and the code point of each character
\* used, for Python's ordering of str in sorted(missing).
Spelling == ("title" :> <<"t", "i", "t", "l", "e">>) @@ ("tempo_bpm" :> <<"t", "e", "m", "p", "o", "_", "b", "p", "m">>) @@ ("key" :> <<"k", "e", "y">>) @@ ("length_bars" :> <<"l", "e", "n", "g", "t", "h", "_", "b", "a", "r", "s">>) @@ ("time_signature" :> <<"t", "i", "m", "e", "_", "s", "i", "g", "n", "a", "t", "u", "r", "e">>) @@ ("melody" :> <<"m", "e", "l", "o", "d", "y">>)
Ord == ("_" :> 95) @@ ("a" :> 97) @@ ("b" :> 98) @@ ("d" :> 100) @@ ("e" :> 101) @@ ("g" :> 103) @@ ("h" :> 104) @@ ("i" :> 105) @@ ("k" :> 107) @@ ("l" :> 108) @@ ("m" :> 109) @@ ("n" :> 110) @@ ("o" :> 111) @@ ("p" :> 112) @@ ("r" :> 114) @@ ("s" :> 115) @@ ("t" :> 116) @@ ("u" :> 117) @@ ("y" :> 121)

\* a < b for Python str: lexicographic by code point, a proper prefix first.
RECURSIVE StrLess(_, _)
StrLess(a, b) ==
    IF b = <<>> THEN FALSE
    ELSE IF a = <<>> THEN TRUE
    ELSE IF Ord[Head(a)] # Ord[Head(b)] THEN Ord[Head(a)] < Ord[Head(b)]
    ELSE StrLess(Tail(a), Tail(b))

KeyLess(j, k) == StrLess(Spelling[j], Spelling[k])

\* Faulty variant: only the first missing key is listed.
SortedKeys_first(S) == IF S = {} THEN <<>> ELSE <<CHOOSE k \in S : \A j \in S \ {k} : KeyLess(k, j)>>

\* sorted(missing) of a set of keys.
RECURSIVE SortedKeys(_)
SortedKeys(S) ==
    IF S = {} THEN <<>>
    ELSE LET least == CHOOSE k \in S : \A j \in S \ {k} : KeyLess(k, j)
         IN <<least>> \o SortedKeys(S \ {least})

NoErr == [kind |-> "", text |-> "", fields |-> <<>>]
MissingFieldsError(fields) == [kind |-> "ValueError", text |-> "Faltan campos en el JSON", fields |-> fields]
EmptyMelodyError == [kind |-> "ValueError", text |-> "El campo 'melody' debe ser una lista no vacia", fields |-> <<>>]

\* isinstance(v, list): JSON values whose type matters carry it in a tag.
IsList(v) == v.type = "list"

\* [err, data]: the exception raised (NoErr when none) and the value returned.
validate(data) ==
    LET missing == REQUIRED_FIELDS \ DOMAIN data
    IN IF missing # {} THEN [err |-> MissingFieldsError(SortedKeys(missing)), data |-> <<>>]
       ELSE IF ~IsList(data["melody"]) \/ Len(data["melody"].items) = 0
            THEN [err |-> EmptyMelodyError, data |-> <<>>]
       ELSE [err |-> NoErr, data |-> data]

\* --------------------------------------------- build_midi: the scheduler
\* dict.get(key, default)
Get(d, k, default) == IF k \in DOMAIN d THEN d[k] ELSE default

KeyError(k) == [kind |-> "KeyError", text |-> k, fields |-> <<>>]

\* bpm = max(40, min(200, int(music_json.get("tempo_bpm", 90))))
ClampBpm(music_json) == Max2(40, Min2(200, Get(music_json, "tempo_bpm", 90)))

\* sorted(melody, key=lambda n: float(n["start_beat"])): stable, ascending.
RECURSIVE InsertNote(_, _)
InsertNote(s, n) ==
    IF s = <<>> THEN <<n>>
    ELSE IF n["start_beat"] < Head(s)["start_beat"] THEN <<n>> \o s
    ELSE <<Head(s)>> \o InsertNote(Tail(s), n)

RECURSIVE SortNotes(_)
SortNotes(s) == IF s = <<>> THEN <<>> ELSE InsertNote(SortNotes(SubSeq(s, 1, Len(s) - 1)), s[Len(s)])

\* Faulty variant: the priority is read the other way round, note-on first.
EventKeyLess_onFirst(a, b) == a.tick < b.tick \/ (a.tick = b.tick /\ a.prio > b.prio)

\* key=lambda e: (e[0], e[1])
EventKeyLess(a, b) == a.tick < b.tick \/ (a.tick = b.tick /\ a.prio < b.prio)

\* events.sort(key=...): stable, ascending.
RECURSIVE InsertEvent(_, _)
InsertEvent(s, e) ==
    IF s = <<>> THEN <<e>>
    ELSE IF EventKeyLess(e, Head(s)) THEN <<e>> \o s
    ELSE <<Head(s)>> \o InsertEvent(Tail(s), e)

RECURSIVE InsertAllEvents(_)
InsertAllEvents(s) == IF s = <<>> THEN <<>> ELSE InsertEvent(InsertAllEvents(SubSeq(s, 1, Len(s) - 1)), s[Len(s)])

SortEvents(s) == InsertAllEvents(s)

\* start = int(float(note["start_beat"]) * tpb)
StartTick(note) == TruncDiv(note["start_beat"] * tpb, BeatDen)

\* dur = max(1, int(float(note["duration_beats"]) * tpb))
DurTicks(note) == Max2(1, TruncDiv(note["duration_beats"] * tpb, BeatDen))

\* vel = max(0, min(127, int(note.get("velocity", 80))))
Velocity(note) == Max2(0, Min2(127, Get(note, "velocity", 80)))

\* The two tuples appended for one note: (tick, priority, status, p1, p2).
NoteOn(note, midi_note) == [tick |-> StartTick(note), prio |-> 1, status |-> 144, p1 |-> midi_note, p2 |-> Velocity(note)]
NoteOff(note, midi_note) == [tick |-> StartTick(note) + DurTicks(note), prio |-> 0, status |-> 128, p1 |-> midi_note, p2 |-> 0]

\* Faulty variant: a pitch that does not match is not caught and ends the loop.
NoteEvents_uncaught(note) ==
    IF "pitch" \notin DOMAIN note THEN [err |-> KeyError("pitch"), events |-> <<>>]
    ELSE LET p == pitch_to_midi(note["pitch"])
         IN IF ~p.ok THEN [err |-> [kind |-> "ValueError", text |-> "Pitch invalido", fields |-> <<>>], events |-> <<>>]
            ELSE IF "duration_beats" \notin DOMAIN note THEN [err |-> KeyError("duration_beats"), events |-> <<>>]
            ELSE [err |-> NoErr, events |-> <<NoteOn(note, p.midi), NoteOff(note, p.midi)>>]

\* The body of "for note in notes" for one note: [err, events].
NoteEvents(note) ==
    IF "pitch" \notin DOMAIN note THEN [err |-> KeyError("pitch"), events |-> <<>>]
    ELSE LET p == pitch_to_midi(note["pitch"])
         IN IF ~p.ok THEN [err |-> NoErr, events |-> <<>>]
            ELSE IF "duration_beats" \notin DOMAIN note THEN [err |-> KeyError("duration_beats"), events |-> <<>>]
            ELSE [err |-> NoErr, events |-> <<NoteOn(note, p.midi), NoteOff(note, p.midi)>>]

\* The loop over the sorted notes; the first exception ends it.
RECURSIVE CollectEvents(_, _)
CollectEvents(notes, acc) ==
    IF notes = <<>> THEN [err |-> NoErr, events |-> acc]
    ELSE LET r == NoteEvents(Head(notes))
         IN IF r.err # NoErr THEN [err |-> r.err, events |-> <<>>]
            ELSE CollectEvents(Tail(notes), acc \o r.events)

\* Lines 202 to 218: [err, events], the events in their final order.
Schedule(music_json) ==
    LET melody == music_json["melody"].items
    IN IF \E i \in 1..Len(melody) : "start_beat" \notin DOMAIN melody[i]
       THEN [err |-> KeyError("start_beat"), events |-> <<>>]
       ELSE LET r == CollectEvents(SortNotes(melody), <<>>)
            IN IF r.err # NoErr THEN r ELSE [err |-> NoErr, events |-> SortEvents(r.events)]

\* ----------------------------------------------- build_midi: the encoder
\* Lines 220 to 224: set_tempo and program_change, each at delta 0.
TrackHead(bpm) == _encode_varint(0) \o _meta_tempo(bpm) \o _encode_varint(0) \o <<192, 0>>

EndOfTrack == <<0, 255, 47, 0>>

\* bytes([status, p1, p2])
VoiceMessage(e) == <<e.status, e.p1, e.p2>>

MThd == <<77, 84, 104, 100>>
MTrk == <<77, 84, 114, 107>>

\* header + chunk (lines 235 to 238)
Container(track_bytes) == MThd \o PackBE32(6) \o PackBE16(0) \o PackBE16(1) \o PackBE16(tpb) \o MTrk \o PackBE32(Len(track_bytes)) \o track_bytes

\* The event loop of lines 226 to 230 as a function of the events left, the
\* cursor and the track so far (total when no delta is negative).
RECURSIVE WriteEvents(_, _, _)
WriteEvents(evs, cur, trk) ==
    IF evs = <<>> THEN trk
    ELSE WriteEvents(Tail(evs), Head(evs).tick, trk \o _encode_varint(Head(evs).tick - cur) \o VoiceMessage(Head(evs)))

\* build_midi as a function: [err, bytes].
build_midi(music_json) ==
    LET s == Schedule(music_json)
    IN IF s.err # NoErr THEN [err |-> s.err, bytes |-> <<>>]
       ELSE [err |-> NoErr, bytes |-> Container(WriteEvents(s.events, 0, TrackHead(ClampBpm(music_json))) \o EndOfTrack)]

\* ------------------------------------------------------------------ inputs
\* str(n) of an integer.
RECURSIVE NatToStr(_)
NatToStr(n) == IF n < 10 THEN <<DigitChr[n + 1]>> ELSE NatToStr(n \div 10) \o <<DigitChr[(n % 10) + 1]>>
IntToStr(n) == IF n < 0 THEN <<"-">> \o NatToStr(-n) ELSE NatToStr(n)

Letters == {"A", "B", "C", "D", "E", "F", "G"}
Accidentals == {<<>>, <<"#">>, <<"b">>}
Octaves == (-1)..MaxOctave

PitchName(l, a, o) == <<l>> \o a \o IntToStr(o)

\* Every letter, accidental and octave of the range, and strings around the
\* grammar: padded, over the range, and not matching.
GrammarPitches == {PitchName(l, a, o) : l \in Letters, a \in Accidentals, o \in Octaves}
OtherPitches == {<<" ", "C", "4", " ">>, <<"C", "1", "2">>, <<"B", "#", "-", "3">>, <<"H", "4">>, <<"c", "4">>, <<"C">>, <<>>, <<"C", "#", "#", "4">>, <<"C", "-">>, <<"4", "C">>, <<"C", " ", "4">>}
PitchInputs == GrammarPitches \cup OtherPitches

VarintInputs == (0..MaxSmallVarint) \cup {16383, 16384, 2097151, 2097152, 268435455}

JList(items) == [type |-> "list", items |-> items]
JOther == [type |-> "str"]

C4 == <<"C", "4">>
H4 == <<"H", "4">>

StartBeats == {-BeatDen, 0, 2, BeatDen}
DurBeats == {1, 4, BeatDen}

\* Notes with every field present; notes whose pitch does not match; notes
\* with a field absent or out of range.
ValidNotes == {[pitch |-> C4, start_beat |-> s, duration_beats |-> d, velocity |-> 80] : s \in StartBeats, d \in DurBeats}
BadPitchNotes == {[pitch |-> H4, start_beat |-> s, duration_beats |-> BeatDen, velocity |-> 80] : s \in StartBeats}
OddNotes == {[pitch |-> C4, duration_beats |-> BeatDen, velocity |-> 80], [pitch |-> H4, duration_beats |-> BeatDen, velocity |-> 80], [pitch |-> H4, start_beat |-> 0], [pitch |-> <<"E", "4">>, start_beat |-> 0, duration_beats |-> BeatDen], [pitch |-> <<" ", "B", "b", "3">>, start_beat |-> BeatDen, duration_beats |-> BeatDen, velocity |-> 200]}
NoteInputs == ValidNotes \cup BadPitchNotes \cup OddNotes

Melodies == UNION {[1..n -> NoteInputs] : n \in 1..MaxNotes}

OneNote == <<[pitch |-> C4, start_beat |-> 0, duration_beats |-> BeatDen, velocity |-> 80]>>

AllKeys == REQUIRED_FIELDS \cup {"assumptions"}
FieldValue(k, tempo, melody) == IF k = "melody" THEN melody ELSE IF k = "tempo_bpm" THEN tempo ELSE IF k = "length_bars" THEN 8 ELSE IF k = "assumptions" THEN JList(<<>>) ELSE "text"
Document(keys, tempo, melody) == [k \in keys |-> FieldValue(k, tempo, melody)]

\* Parsed documents handed to the validation step: any set of keys, melody a
\* non-empty list, an empty list or not a list.
ValidateInputs == {Document(K, 90, m) : K \in SUBSET AllKeys, m \in {JList(OneNote), JList(<<>>), JOther}}

\* Documents handed to build_midi: every melody at one tempo, and every
\* tempo with one melody.
BuildInputs == {Document(REQUIRED_FIELDS, 120, JList(m)) : m \in Melodies} \cup {Document(REQUIRED_FIELDS, t, JList(OneNote)) : t \in 0..MaxBpm}

\* ----------------------------------------------------------- state machine
Idle ==
    /\ pc = "call"
    /\ result = <<>>
    /\ err = NoErr
    /\ events = <<>>
    /\ idx = 0
    /\ current_tick = 0
    /\ value = 0
    /\ buf = <<>>
    /\ track = <<>>
    /\ deltas = <<>>

Init ==
    /\ Idle
    /\ \/ arg \in {[fn |-> "pitch_to_midi", pitch_str |-> s] : s \in PitchInputs}
       \/ arg \in {[fn |-> "_encode_varint", value |-> n] : n \in VarintInputs}
       \/ arg \in {[fn |-> "validate", data |-> d] : d \in ValidateInputs}
       \/ arg \in {[fn |-> "build_midi", music_json |-> d] : d \in BuildInputs}

InvalidPitchError == [kind |-> "ValueError", text |-> "Pitch invalido", fields |-> <<>>]

\* pitch_to_midi(pitch_str), lines 162 to 176.
CallPitchToMidi ==
    /\ pc = "call"
    /\ arg.fn = "pitch_to_midi"
    /\ LET r == pitch_to_midi(arg.pitch_str)
       IN IF r.ok THEN pc' = "returned" /\ result' = r.midi /\ err' = err
          ELSE pc' = "raised" /\ err' = InvalidPitchError /\ result' = result
    /\ UNCHANGED <<arg, events, idx, current_tick, value, buf, track, deltas>>

\* The validation step, lines 144 to 151.
CallValidate ==
    /\ pc = "call"
    /\ arg.fn = "validate"
    /\ LET r == validate(arg.data)
       IN IF r.err = NoErr THEN pc' = "returned" /\ result' = r.data /\ err' = err
          ELSE pc' = "raised" /\ err' = r.err /\ result' = result
    /\ UNCHANGED <<arg, events, idx, current_tick, value, buf, track, deltas>>

\* _encode_varint(value) called on its own: lines 181 and 182.
CallEncodeVarint ==
    /\ pc = "call"
    /\ arg.fn = "_encode_varint"
    /\ buf' = VarintInit(arg.value).buf
    /\ value' = VarintInit(arg.value).value
    /\ pc' = "varint_loop"
    /\ UNCHANGED <<arg, result, err, events, idx, current_tick, track, deltas>>

\* One pass of "while value:", lines 183 to 185.  The list is kept to its
\* first MaxVarintBytes entries.
VarintLoop ==
    /\ pc = "varint_loop"
    /\ value # 0
    /\ LET st == VarintIter([buf |-> buf, value |-> value])
       IN /\ buf' = IF Len(buf) < MaxVarintBytes THEN st.buf ELSE buf
          /\ value' = st.value
    /\ UNCHANGED <<pc, arg, result, err, events, idx, current_tick, track, deltas>>

\* Line 186, for the call on its own.
VarintReturn ==
    /\ pc = "varint_loop"
    /\ value = 0
    /\ arg.fn = "_encode_varint"
    /\ result' = VarintBytes(buf)
    /\ pc' = "returned"
    /\ UNCHANGED <<arg, err, events, idx, current_tick, value, buf, track, deltas>>

\* build_midi, lines 200 to 226: tempo, the scheduled events, the track head.
BuildStart ==
    /\ pc = "call"
    /\ arg.fn = "build_midi"
    /\ LET s == Schedule(arg.music_json)
       IN IF s.err # NoErr
          THEN pc' = "raised" /\ err' = s.err /\ UNCHANGED <<events, track, idx>>
          ELSE /\ pc' = "write_loop"
               /\ events' = s.events
               /\ track' = TrackHead(ClampBpm(arg.music_json))
               /\ idx' = 1
               /\ err' = err
    /\ current_tick' = 0
    /\ UNCHANGED <<arg, result, value, buf, deltas>>

\* Faulty variant: the cursor is not moved to the event's tick.
WriteEventBegin_cursorKept ==
    /\ pc = "write_loop"
    /\ idx <= Len(events)
    /\ LET delta == events[idx].tick - current_tick
       IN /\ deltas' = Append(deltas, delta)
          /\ buf' = VarintInit(delta).buf
          /\ value' = VarintInit(delta).value
    /\ pc' = "varint_loop"
    /\ UNCHANGED <<arg, result, err, events, idx, track, current_tick>>

\* Lines 227 to 230 up to the entry of _encode_varint(delta).
WriteEventBegin ==
    /\ pc = "write_loop"
    /\ idx <= Len(events)
    /\ LET delta == events[idx].tick - current_tick
       IN /\ deltas' = Append(deltas, delta)
          /\ buf' = VarintInit(delta).buf
          /\ value' = VarintInit(delta).value
    /\ current_tick' = events[idx].tick
    /\ pc' = "varint_loop"
    /\ UNCHANGED <<arg, result, err, events, idx, track>>

\* Line 230 from the return of _encode_varint(delta).
WriteEventEnd ==
    /\ pc = "varint_loop"
    /\ value = 0
    /\ arg.fn = "build_midi"
    /\ track' = track \o VarintBytes(buf) \o VoiceMessage(events[idx])
    /\ idx' = idx + 1
    /\ pc' = "write_loop"
    /\ UNCHANGED <<arg, result, err, events, current_tick, value, buf, deltas>>

\* Lines 232 to 238.
BuildFinish ==
    /\ pc = "write_loop"
    /\ idx > Len(events)
    /\ track' = track \o EndOfTrack
    /\ result' = Container(track')
    /\ pc' = "returned"
    /\ UNCHANGED <<arg, err, events, idx, current_tick, value, buf, deltas>>

Next ==
    \/ CallPitchToMidi
    \/ CallValidate
    \/ CallEncodeVarint
    \/ VarintLoop
    \/ VarintReturn
    \/ BuildStart
    \/ WriteEventBegin
    \/ WriteEventEnd
    \/ BuildFinish

Spec == Init /\ [][Next]_vars

\* build_midi alone, on documents whose notes carry every field.
CompleteMelodies == UNION {[1..n -> ValidNotes \cup BadPitchNotes] : n \in 1..MaxNotes}

InitBuild ==
    /\ Idle
    /\ arg \in {[fn |-> "build_midi", music_json |-> Document(REQUIRED_FIELDS, 120, JList(m))] : m \in CompleteMelodies}

NextBuild ==
    \/ BuildStart
    \/ WriteEventBegin
    \/ VarintLoop
    \/ WriteEventEnd
    \/ BuildFinish

\* The interpreter does not stop inside build_midi: a step of its loops that
\* can be taken is taken.
FairBuildSpec == InitBuild /\ [][NextBuild]_vars /\ WF_vars(WriteEventBegin) /\ WF_vars(VarintLoop) /\ WF_vars(WriteEventEnd) /\ WF_vars(BuildFinish)

\* ------------------------------------------------- reading the output back
\* The standard MIDI variable-length-quantity reader: seven bits per byte,
\* most significant first, the last byte the one with bit 0x80 clear.
RECURSIVE ReadVLQ(_, _, _)
ReadVLQ(bytes, pos, acc) ==
    IF pos > Len(bytes) THEN [ok |-> FALSE, value |-> acc, next |-> pos]
    ELSE IF bytes[pos] < 128 THEN [ok |-> TRUE, value |-> acc * 128 + bytes[pos], next |-> pos + 1]
    ELSE ReadVLQ(bytes, pos + 1, acc * 128 + (bytes[pos] - 128))

\* The track data of a file: what follows the 14-byte header chunk and the
\* 8 bytes of the track chunk's tag and length.
TrackOf(file) == SubSeq(file, 23, Len(file))

\* The 3-byte big-endian payload of the tempo meta event, the first event.
TempoPayload(file) == TrackOf(file)[5] * 65536 + TrackOf(file)[6] * 256 + TrackOf(file)[7]

\* The channel events of a track from pos up to the end-of-track event.
RECURSIVE ReadEvents(_, _, _)
ReadEvents(trk, pos, cur) ==
    IF pos > Len(trk) - 4 THEN <<>>
    ELSE LET d == ReadVLQ(trk, pos, 0)
         IN <<[delta |-> d.value, tick |-> cur + d.value, status |-> trk[d.next]]>> \o ReadEvents(trk, d.next + 3, cur + d.value)

\* The note events of a file: they follow the tempo and program events.
WrittenEvents(file) == ReadEvents(TrackOf(file), 11, 0)

RECURSIVE SumSeq(_)
SumSeq(s) == IF s = <<>> THEN 0 ELSE Head(s) + SumSeq(Tail(s))

Abs(n) == IF n < 0 THEN -n ELSE n

RunsPitch == arg.fn = "pitch_to_midi"
RunsVarint == arg.fn = "_encode_varint"
RunsValidate == arg.fn = "validate"
RunsBuild == arg.fn = "build_midi"
InBuild == RunsBuild /\ pc \in {"write_loop", "varint_loop", "returned"}
MelodyOf(doc) == doc["melody"].items

\* ------------------------------------------------------------------ claims

\* C1: for every pitch string made of a letter A-G, an accidental in
\* {none, #, b} and an octave in -1..MaxOctave, pitch_to_midi returns an
\* integer m with 48 <= m <= 72.
C1_PitchInRange ==
    (RunsPitch /\ pc # "call" /\ arg.pitch_str \in GrammarPitches)
        => (pc = "returned" /\ result \in 48..72)

\* C1 witness: Cb-1, raw value -1, has been folded up five octaves to 59.
C1_Witness == RunsPitch /\ pc = "returned" /\ arg.pitch_str = <<"C", "b", "-", "1">> /\ result = 59

\* C2 as amended: pitch_to_midi returns 60 for "C4", 48 for "C3", 72 for
\* "C5", and for "C6" (raw value 84) it folds down by one octave to 72.
C2_Examples ==
    (RunsPitch /\ pc # "call") =>
        /\ arg.pitch_str = <<"C", "4">> => (pc = "returned" /\ result = 60)
        /\ arg.pitch_str = <<"C", "3">> => (pc = "returned" /\ result = 48)
        /\ arg.pitch_str = <<"C", "5">> => (pc = "returned" /\ result = 72)
        /\ arg.pitch_str = <<"C", "6">> => (pc = "returned" /\ result = 84 - 12)

\* C2 as stated: ... and for "C6" it folds down by one octave to 60.
C2_Original ==
    (RunsPitch /\ pc # "call") =>
        /\ arg.pitch_str = <<"C", "4">> => (pc = "returned" /\ result = 60)
        /\ arg.pitch_str = <<"C", "3">> => (pc = "returned" /\ result = 48)
        /\ arg.pitch_str = <<"C", "5">> => (pc = "returned" /\ result = 72)
        /\ arg.pitch_str = <<"C", "6">> => (pc = "returned" /\ result = 60)

\* C2 witness: pitch_to_midi has returned for "C6".
C2_Witness == RunsPitch /\ pc = "returned" /\ arg.pitch_str = <<"C", "6">> /\ result = 72

\* C3: for every n with 0 <= n < 2^28, reading _encode_varint(n) back with
\* the standard reader gives n and uses every byte; only the last byte has
\* bit 0x80 clear; the first byte is not a bare 0x80; 0 encodes as the one
\* byte 0x00, 127 as one byte and 128 as two bytes.
C3_VarintRoundTrip ==
    (RunsVarint /\ pc = "returned" /\ arg.value >= 0 /\ arg.value < 2 ^ 28) =>
        /\ ReadVLQ(result, 1, 0) = [ok |-> TRUE, value |-> arg.value, next |-> Len(result) + 1]
        /\ \A i \in 1..Len(result) : (result[i] < 128) <=> (i = Len(result))
        /\ result[1] # 128
        /\ arg.value = 0 => result = <<0>>
        /\ arg.value = 127 => Len(result) = 1
        /\ arg.value = 128 => Len(result) = 2

\* C3 witness: the largest value of the range has been encoded in four bytes.
C3_Witness == RunsVarint /\ pc = "returned" /\ arg.value = 2 ^ 28 - 1 /\ result = <<255, 255, 255, 127>>

TwoNotes == <<[pitch |-> C4, start_beat |-> 0, duration_beats |-> BeatDen, velocity |-> 80], [pitch |-> C4, start_beat |-> BeatDen, duration_beats |-> BeatDen, velocity |-> 80]>>

\* C4: the note events are written in ascending order of absolute tick, and
\* a note-off is written before every note-on of the same tick; for two
\* notes at beats [0,1) and [1,2) the order written is note-on@0,
\* note-off@480, note-on@480, note-off@960.
C4_EventOrder ==
    InBuild =>
        /\ \A i, j \in 1..Len(events) : i < j =>
              /\ events[i].tick <= events[j].tick
              /\ events[i].tick = events[j].tick => ~(events[i].status = 144 /\ events[j].status = 128)
        /\ pc = "returned" =>
              /\ Len(WrittenEvents(result)) = Len(events)
              /\ \A i \in 1..Len(events) :
                    /\ WrittenEvents(result)[i].tick = events[i].tick
                    /\ WrittenEvents(result)[i].status = events[i].status
        /\ (pc = "returned" /\ MelodyOf(arg.music_json) = TwoNotes) =>
              [i \in 1..4 |-> <<WrittenEvents(result)[i].tick, WrittenEvents(result)[i].status>>]
                  = << <<0, 144>>, <<480, 128>>, <<480, 144>>, <<960, 128>> >>

\* C4 witness: the two back-to-back notes have been written, a note-off and
\* a note-on sharing tick 480.
C4_Witness ==
    /\ RunsBuild /\ pc = "returned" /\ MelodyOf(arg.music_json) = TwoNotes
    /\ Len(events) = 4 /\ events[2].tick = events[3].tick

\* C5 as stated: the tempo meta event carries the 3-byte big-endian value
\* round(60,000,000 / b), b being tempo_bpm clamped to [40, 200] (a nearest
\* integer, either one at a tie); for tempo_bpm = 120 the value is 500000.
C5_TempoRounded ==
    (RunsBuild /\ pc = "returned") =>
        LET b == Max2(40, Min2(200, arg.music_json["tempo_bpm"]))
        IN /\ 2 * Abs(TempoPayload(result) * b - 60000000) <= b
           /\ arg.music_json["tempo_bpm"] = 120 => TempoPayload(result) = 500000

Alphabetical == <<"key", "length_bars", "melody", "tempo_bpm", "time_signature", "title">>
IsAbsent(k) == k \notin DOMAIN arg.data

\* C6: validation has exactly three outcomes: with a required key absent,
\* the missing-fields error listing exactly the absent keys in alphabetical
\* order; otherwise, with melody not a non-empty list, the distinct
\* empty-melody error; otherwise the document is returned unchanged.
C6_ValidateOutcomes ==
    (RunsValidate /\ pc # "call") =>
        IF \E k \in {"title", "tempo_bpm", "key", "length_bars", "time_signature", "melody"} : IsAbsent(k)
        THEN /\ pc = "raised"
             /\ err.text = "Faltan campos en el JSON"
             /\ err.fields = SelectSeq(Alphabetical, IsAbsent)
        ELSE IF arg.data["melody"].type # "list" \/ arg.data["melody"].items = <<>>
        THEN /\ pc = "raised"
             /\ err.text = "El campo 'melody' debe ser una lista no vacia"
             /\ err.text # "Faltan campos en el JSON"
        ELSE pc = "returned" /\ result = arg.data /\ err = NoErr

\* C6 witness: a document without key and melody has been rejected, the two
\* listed in that order.
C6_Witness == RunsValidate /\ pc = "raised" /\ err.fields = <<"key", "melody">>

\* A note whose pitch string does not match the grammar.
BadPitch(note) == "pitch" \in DOMAIN note /\ ~MatchPitch(Strip(note["pitch"])).ok
GoodPitch(note) == ~BadPitch(note)
WithoutBadPitch(doc) == [doc EXCEPT !["melody"] = JList(SelectSeq(doc["melody"].items, GoodPitch))]

SpecErrors == {InvalidPitchError, EmptyMelodyError} \cup {MissingFieldsError(SortedKeys(S)) : S \in SUBSET REQUIRED_FIELDS}

\* C8 as stated: for every document the validation step accepts, build_midi
\* comes to an end, returning bytes or raising one of the enumerated error
\* kinds.
C8_CompletesOrSpecError ==
    (RunsBuild /\ pc # "call" /\ validate(arg.music_json).err = NoErr)
        ~> (pc = "returned" \/ (pc = "raised" /\ err \in SpecErrors))

\* t is an integer nearest to beats * 480 (either one at a tie).
IsNearestTick(t, beats) == 2 * Abs(t * BeatDen - beats * 480) <= BeatDen

\* C9 as stated: for every note with non-negative start_beat and positive
\* duration_beats, the note-on is at tick round(start_beat * 480) and the
\* note-off at that tick plus max(1, round(duration_beats * 480)).
C9_RoundedTicks ==
    InBuild =>
        \A n \in 1..Len(MelodyOf(arg.music_json)) :
            LET note == MelodyOf(arg.music_json)[n]
            IN (GoodPitch(note) /\ note["start_beat"] >= 0 /\ note["duration_beats"] > 0) =>
                  \E i, j \in 1..Len(events) :
                      /\ events[i].status = 144 /\ IsNearestTick(events[i].tick, note["start_beat"])
                      /\ events[j].status = 128
                      /\ \E d \in 0..(events[j].tick - events[i].tick) :
                            /\ IsNearestTick(d, note["duration_beats"])
                            /\ events[j].tick = events[i].tick + Max2(1, d)

NonNegativeStarts(doc) == \A i \in DOMAIN MelodyOf(doc) : "start_beat" \in DOMAIN MelodyOf(doc)[i] /\ MelodyOf(doc)[i]["start_beat"] >= 0

\* C10: for a melody whose notes all have non-negative start_beat, the
\* cursor starts at 0, every delta-time written is >= 0, after each event
\* the cursor is that event's absolute tick, and the delta-times up to and
\* including an event add up to its absolute tick; the delta-times read back
\* from the file are those.
C10_Cursor ==
    (InBuild /\ NonNegativeStarts(arg.music_json)) =>
        /\ (pc = "write_loop" /\ idx = 1) => (current_tick = 0 /\ deltas = <<>>)
        /\ \A i \in DOMAIN deltas : deltas[i] >= 0
        /\ Len(deltas) = IF pc = "varint_loop" THEN idx ELSE idx - 1
        /\ Len(deltas) > 0 => current_tick = events[Len(deltas)].tick
        /\ \A i \in DOMAIN deltas : SumSeq(SubSeq(deltas, 1, i)) = events[i].tick
        /\ pc = "returned" => [i \in DOMAIN deltas |-> WrittenEvents(result)[i].delta] = deltas

\* C10 witness: the four events of the two back-to-back notes have been
\* written with delta-times 0, 480, 0, 480.
C10_Witness == RunsBuild /\ pc = "returned" /\ deltas = <<0, 480, 0, 480>> /\ current_tick = 960

====
